---- MODULE Spec2Model ----
(***************************************************************************)
(* Model of dimension_selection/wasserstein.ipynb: the split-sample        *)
(* Wasserstein dimension selection wasserstein_dim_select(Y, split, rmax). *)
(*                                                                         *)
(* All arithmetic is exact.  Each row of Y is one edge of an Euler brick    *)
(* laid along a coordinate axis, so every Euclidean distance the transport *)
(* cost matrix holds is an integer, and the Gram matrix of every Ytrain is *)
(* diagonal, so its right singular vectors are coordinate vectors.         *)
(* Singular values are held as their squares (the eigenvalues of           *)
(* Ytrain^T Ytrain); they are non-negative, so they sort in the same       *)
(* order.  Transport costs are rationals <<num, den>>.                     *)
(***************************************************************************)
EXTENDS Integers, Sequences, FiniteSets, TLC

\* ---------------------------------------------------------------- bounds
MaxN == 5            \* most rows of Y
MaxRmax == 2         \* largest explicit rank cap (besides the default)
MaxSplitExp == 2     \* split fractions are num / 2^k, k <= MaxSplitExp
NumCalls == 2        \* invocations with the same arguments

\* ------------------------------------------------------- program constants
DefaultRmax == 50                          \* def ...(Y, split = 0.5, rmax = 50)
DefaultSplit == [num |-> 1, den |-> 2]     \* split = 0.5

\* Edges of the smallest Euler brick: 44^2+117^2 = 125^2,
\* 44^2+240^2 = 244^2, 117^2+240^2 = 267^2.
Axis == <<44, 117, 240>>

\* ------------------------------------------------------------ arithmetic
Min2(a, b) == IF a <= b THEN a ELSE b
Max2(a, b) == IF a >= b THEN a ELSE b

RECURSIVE Pow2(_)
Pow2(k) == IF k = 0 THEN 1 ELSE 2 * Pow2(k - 1)

RECURSIVE Gcd(_, _)
Gcd(a, b) == IF b = 0 THEN a ELSE Gcd(b, a % b)
Lcm(a, b) == (a * b) \div Gcd(a, b)

RECURSIVE SumTo(_, _)
\* f[1] + ... + f[k]
SumTo(f, k) == IF k = 0 THEN 0 ELSE f[k] + SumTo(f, k - 1)

RECURSIVE SqrtSearch(_, _, _)
\* the largest root in lo..hi whose square is at most x
SqrtSearch(x, lo, hi) ==
    IF lo = hi THEN lo
    ELSE LET mid == (lo + hi + 1) \div 2
         IN  IF mid * mid <= x THEN SqrtSearch(x, mid, hi)
                               ELSE SqrtSearch(x, lo, mid - 1)

\* Python's round() on the exactly representable value num/den, den > 0:
\* to the nearest integer, ties to the even one.
round_floor(num, den) == (2 * num + den) \div (2 * den)
round(num, den) ==
    LET up == round_floor(num, den)
        tie == ((2 * num + den) % (2 * den)) = 0
    IN  IF tie /\ up % 2 # 0 THEN up - 1 ELSE up

\* Python's seq[start:stop] (0-based, negative indices count from the end,
\* out-of-range indices are clamped).
SliceIndex(i, len) ==
    IF i < 0 THEN Max2(i + len, 0) ELSE Min2(i, len)
PySlice(seq, start, stop) ==
    SubSeq(seq, SliceIndex(start, Len(seq)) + 1, SliceIndex(stop, Len(seq)))

\* ------------------------------------------------------------- the inputs
AxisRow(j, cols) == [c \in 1..cols |-> IF c = j THEN Axis[j] ELSE 0]
RowSet(cols) == {AxisRow(j, cols) : j \in 1..cols}

SplitValues ==
    {sp \in [num : -1..(Pow2(MaxSplitExp) + 1), den : {Pow2(k) : k \in 1..MaxSplitExp}] :
        sp.num % 2 = 1 /\ sp.num <= sp.den + 1}
RmaxValues == (0..MaxRmax) \cup {DefaultRmax}

VARIABLES
    Y, p, split, rmax,      \* the arguments; p = Y.shape[1]
    pc,                     \* position in the current invocation
    n, train, rtry,         \* locals of wasserstein_dim_select
    Ytrain, Ytest,
    svdOut,                 \* what the SVD provider returned, as returned
    s, Vh, ws, r,
    P, Yproj, n1, n2, M, W1,
    dists,                  \* number of cost matrices computed so far
    log,                    \* the provider calls of this invocation, in order
    outcome,                \* how the current invocation ended
    calls,                  \* outcomes of the finished invocations
    X, r_scores, return_eig \* the arguments of pc_scores(X, r, return_eig)

vars == <<Y, p, split, rmax, pc, n, train, rtry, Ytrain, Ytest, svdOut,
          s, Vh, ws, r, P, Yproj, n1, n2, M, W1, dists, log, outcome, calls,
          X, r_scores, return_eig>>

loopLocals == <<P, Yproj, n1, n2, M, W1>>

args == <<Y, p, split, rmax, X, r_scores, return_eig>>

NoOutcome == [status |-> "running", error |-> "", value |-> <<>>]
NoSvd == [s |-> <<>>, Vh |-> <<>>]
NoW1 == <<0, 1>>

\* the frame of an invocation before any local is bound
FreshFrame ==
    /\ n = 0 /\ train = 0 /\ rtry = 0
    /\ Ytrain = <<>> /\ Ytest = <<>>
    /\ svdOut = NoSvd
    /\ s = <<>> /\ Vh = <<>> /\ ws = <<>> /\ r = 0
    /\ P = <<>> /\ Yproj = <<>> /\ n1 = 0 /\ n2 = 0 /\ M = <<>>
    /\ W1 = NoW1
    /\ dists = 0
    /\ log = <<>>
    /\ outcome = NoOutcome

\* no call of pc_scores
NoScoresArgs == X = <<>> /\ r_scores = 0 /\ return_eig = "None"

Init ==
    /\ p \in 1..Len(Axis)
    /\ \E nn \in 1..MaxN : Y \in [1..nn -> RowSet(p)]
    /\ split \in SplitValues
    /\ rmax \in RmaxValues
    /\ NoScoresArgs
    /\ pc = "call"
    /\ FreshFrame
    /\ calls = <<>>

\* lines 104-109: n, train, rtry, Ytrain, Ytest
Shape0_cols(YY) == Len(YY[1])
Shape0(YY) == Len(YY)
Train(nn, sp) == round(nn * sp.num, sp.den)
Rtry_train(tr, rm) == tr
Rtry(tr, rm) == Min2(tr, rm)
TrainRows_short(YY, tr) == PySlice(YY, 0, tr - 1)
TrainRows_long(YY, tr) == PySlice(YY, 0, tr + 1)
TrainRows(YY, tr) == PySlice(YY, 0, tr)
TestRows_skip(YY, tr, nn) == PySlice(YY, tr + 1, nn)
TestRows(YY, tr, nn) == PySlice(YY, tr, nn)

Split ==
    /\ pc = "call"
    /\ n' = Shape0(Y)
    /\ train' = Train(n', split)
    /\ rtry' = Rtry(train', rmax)
    /\ Ytrain' = TrainRows(Y, train')
    /\ Ytest' = TestRows(Y, train', n')
    /\ pc' = "svds"
    /\ UNCHANGED <<args, svdOut, s, Vh, ws, r, loopLocals, dists, log, outcome,
                   calls>>


\* ------------------------------------------------- line 110: the SVD provider
\* scipy.sparse.linalg.svds(A, k) on an m x cols matrix: k must satisfy
\* 1 <= k <= min(m, cols) - 1, otherwise ValueError.
SvdsRankOk(A, cols, k) == k >= 1 /\ k <= Min2(Len(A), cols) - 1

Gram(A, cols) ==
    [a \in 1..cols |-> [b \in 1..cols |->
        SumTo([i \in 1..Len(A) |-> A[i][a] * A[i][b]], Len(A))]]

UnitRow(j, cols) == [c \in 1..cols |-> IF c = j THEN 1 ELSE 0]

\* Injective sequences of length k over the set T.
Arrangements(T, k) ==
    {q \in [1..k -> T] : \A i, j \in 1..k : i # j => q[i] # q[j]}

\* The triplets svds may return for A: the k largest singular values (held
\* squared) with their right singular vectors, in any order.  A's Gram matrix
\* is diagonal, so the vectors are coordinate vectors; where singular values
\* tie, each choice of coordinate vectors is a possible answer.  The sign of
\* a vector v is not modelled: the function uses v only in v^T v.
svds(A, cols, k) ==
    LET G == Gram(A, cols)
        Tops == {T \in SUBSET (1..cols) :
                    /\ Cardinality(T) = k
                    /\ \A a \in T, b \in (1..cols) \ T : G[a][a] >= G[b][b]}
    IN  {[s  |-> [i \in 1..k |-> G[q[i]][q[i]]],
          Vh |-> [i \in 1..k |-> UnitRow(q[i], cols)]] :
            q \in UNION {Arrangements(T, k) : T \in Tops}}

\* ----------------------------------------------- lines 111-114: the re-sort
\* s.argsort(): the index orders that sort s ascending (the order of equal
\* keys is not specified for the default sort kind).
argsort(ss) ==
    {q \in Arrangements(1..Len(ss), Len(ss)) :
        \A i \in 1..(Len(ss) - 1) : ss[q[i]] <= ss[q[i + 1]]}
\* q[::-1]
Reversed_same(q) == q
Reversed(q) == [i \in 1..Len(q) |-> q[Len(q) + 1 - i]]
\* s[idx]
Take(x, idx) == [i \in 1..Len(idx) |-> x[idx[i]]]
\* Vh[idx, :]
TakeRows_same(x, idx) == x
TakeRows(x, idx) == [i \in 1..Len(idx) |-> x[idx[i]]]
\* ws = []
EmptyList_kept == IF calls = <<>> THEN <<>> ELSE calls[Len(calls)].value
EmptyList == <<>>

\* A deterministic provider answers a question it was asked before as it did
\* before: memo is the first finished invocation, if there is one.
Asked == calls # <<>> /\ calls[1].svdArgs = <<Ytrain, rmax>>
SvdsMayFail == Asked => calls[1].error = "ArpackNoConvergence"
SvdsMayReturn(out) == Asked => calls[1].svd = out
EmdMayFail(MM) == calls # <<>> => calls[1].failedOn = MM
EmdMayReturn(MM) == calls # <<>> => calls[1].failedOn # MM

\* the entries of the call log
SvdsCall(A, kk) == [fn |-> "svds", A |-> A, k |-> kk]
EmdCall(rr, a, b, MM) == [fn |-> "emd2", r |-> rr, a |-> a, b |-> b, M |-> MM]

Raise(err) ==
    /\ pc' = "done"
    /\ outcome' = [status |-> "raised", error |-> err, value |-> <<>>]

\* line 110 with a rank svds rejects
SvdsInvalid ==
    /\ pc = "svds"
    /\ ~SvdsRankOk(Ytrain, p, rmax)
    /\ Raise("ValueError")
    /\ log' = Append(log, SvdsCall(Ytrain, rmax))
    /\ UNCHANGED <<args, n, train, rtry, Ytrain, Ytest, svdOut, s, Vh, ws, r,
                   loopLocals, dists, calls>>

\* line 110: the solver does not converge
SvdsFails ==
    /\ pc = "svds"
    /\ SvdsRankOk(Ytrain, p, rmax)
    /\ SvdsMayFail
    /\ Raise("ArpackNoConvergence")
    /\ log' = Append(log, SvdsCall(Ytrain, rmax))
    /\ UNCHANGED <<args, n, train, rtry, Ytrain, Ytest, svdOut, s, Vh, ws, r,
                   loopLocals, dists, calls>>

\* lines 110-114: the decomposition, the re-sort, the empty result list
Svds ==
    /\ pc = "svds"
    /\ SvdsRankOk(Ytrain, p, rmax)
    /\ \E out \in svds(Ytrain, p, rmax) :
          /\ SvdsMayReturn(out)
          /\ svdOut' = out
          /\ \E q \in argsort(out.s) :
                LET idx == Reversed(q)
                IN  /\ s' = Take(out.s, idx)
                    /\ Vh' = TakeRows(out.Vh, idx)
    /\ log' = Append(log, SvdsCall(Ytrain, rmax))
    /\ ws' = EmptyList
    /\ r' = 1
    /\ pc' = "loop"
    /\ UNCHANGED <<args, n, train, rtry, Ytrain, Ytest, loopLocals,
                   dists, outcome, calls>>

\* ------------------------------------------- lines 115-122: the rank sweep
\* P = Vh.T[:, :r] @ Vh[:r, :]
Projection_lower(VV, rr, cols) ==
    LET top == PySlice(VV, 0, rr - 1)
    IN  [a \in 1..cols |-> [b \in 1..cols |->
            SumTo([i \in 1..Len(top) |-> top[i][a] * top[i][b]], Len(top))]]
Projection_last(VV, rr, cols) ==
    LET top == PySlice(VV, rr - 1, rr)
    IN  [a \in 1..cols |-> [b \in 1..cols |->
            SumTo([i \in 1..Len(top) |-> top[i][a] * top[i][b]], Len(top))]]
Projection_negated(VV, rr, cols) ==
    LET top == PySlice(VV, 0, rr)
    IN  [a \in 1..cols |-> [b \in 1..cols |->
            0 - SumTo([i \in 1..Len(top) |-> top[i][a] * top[i][b]], Len(top))]]
Projection(VV, rr, cols) ==
    LET top == PySlice(VV, 0, rr)
    IN  [a \in 1..cols |-> [b \in 1..cols |->
            SumTo([i \in 1..Len(top) |-> top[i][a] * top[i][b]], Len(top))]]

\* Yproj = Ytrain @ P.T
Project(A, PP, cols) ==
    [i \in 1..Len(A) |-> [a \in 1..cols |->
        SumTo([b \in 1..cols |-> A[i][b] * PP[a][b]], cols)]]

\* ot.dist(x1, x2, metric='euclidean'): pairwise Euclidean distances
SqDist(u, v, cols) ==
    SumTo([c \in 1..cols |-> (u[c] - v[c]) * (u[c] - v[c])], cols)
Sqrt(x) == SqrtSearch(x, 0, x)
Euclidean_signed(u, v, cols) == SumTo([c \in 1..cols |-> u[c] - v[c]], cols)
Euclidean(u, v, cols) == Sqrt(SqDist(u, v, cols))
dist(X1, X2, cols) ==
    [i \in 1..Len(X1) |-> [j \in 1..Len(X2) |-> Euclidean(X1[i], X2[j], cols)]]

\* np.repeat(1/m, m): m copies of the rational 1/m
UniformWeights(m) == [i \in 1..m |-> <<1, m>>]

\* ot.emd2(a, b, M): the least cost of a transport plan moving the masses a
\* onto the masses b.  With mass counted in units of 1/den, den the common
\* denominator of the weights, the plans with whole units contain an optimal
\* one (the constraint matrix is totally unimodular).  The plans are built
\* source by source: RowPlans are the ways to spread one source's units over
\* what the targets still lack.
RowPlans(units, lack) ==
    {g \in [1..Len(lack) -> 0..units] :
        /\ \A j \in 1..Len(lack) : g[j] <= lack[j]
        /\ SumTo(g, Len(lack)) = units}
RowCost(g, Mrow) == SumTo([j \in 1..Len(g) |-> g[j] * Mrow[j]], Len(g))
SetMin(S) == CHOOSE c \in S : \A d \in S : c <= d
RECURSIVE MinCost(_, _, _, _)
MinCost(i, supply, lack, MM) ==
    IF i > Len(supply) THEN 0
    ELSE SetMin({RowCost(g, MM[i])
                   + MinCost(i + 1, supply, [j \in 1..Len(lack) |-> lack[j] - g[j]], MM) :
                 g \in RowPlans(supply[i], lack)})
emd2(a, b, MM) ==
    LET den == Lcm(a[1][2], b[1][2])
        supply == [i \in 1..Len(a) |-> a[i][1] * (den \div a[i][2])]
        demand == [j \in 1..Len(b) |-> b[j][1] * (den \div b[j][2])]
    IN  <<MinCost(1, supply, demand, MM), den>>

Append1_front(list, x) == <<x>> \o list
Append1(list, x) == Append(list, x)

\* a <= b for rationals <<num, den>> with positive denominators
RatLeq(a, b) == a[1] * b[2] <= b[1] * a[2]
\* np.argmin(list): the 0-based position of the first least entry
argmin(list) ==
    CHOOSE i \in 0..(Len(list) - 1) :
        /\ \A j \in 1..Len(list) : RatLeq(list[i + 1], list[j])
        /\ \A j \in 1..i : ~RatLeq(list[j], list[i + 1])

\* One pass of the loop body for rank r, up to the cost matrix (lines 116-120).
LoopHead ==
    /\ pc = "loop"
    /\ r <= rtry
    /\ P' = Projection(Vh, r, p)
    /\ Yproj' = Project(Ytrain, P', p)
    /\ n1' = Len(Yproj')
    /\ n2' = Len(Ytest)
    /\ M' = dist(Yproj', Ytest, p)
    /\ dists' = dists + 1

\* for r in range(1,rtry+1): the rank after rr
NextRank_skip(rr) == rr + 2
NextRank(rr) == rr + 1

\* lines 116-122 for one rank
LoopStep ==
    /\ LoopHead
    /\ n2' # 0
    /\ EmdMayReturn(M')
    /\ W1' = emd2(UniformWeights(n1'), UniformWeights(n2'), M')
    /\ log' = Append(log, EmdCall(r, UniformWeights(n1'), UniformWeights(n2'), M'))
    /\ ws' = Append1(ws, W1')
    /\ r' = NextRank(r)
    /\ UNCHANGED <<args, pc, n, train, rtry, Ytrain, Ytest, svdOut, s, Vh,
                   outcome, calls>>

\* line 121 with an empty test part: 1/n2 divides by zero
LoopZeroDivision ==
    /\ LoopHead
    /\ n2' = 0
    /\ Raise("ZeroDivisionError")
    /\ UNCHANGED <<args, n, train, rtry, Ytrain, Ytest, svdOut, s, Vh, ws, r,
                   W1, log, calls>>

\* line 121: the transport solver raises; nothing in the function catches it
OnSolverError_partial(list) == [status |-> "returned", error |-> "", value |-> list]
OnSolverError(list) == [status |-> "raised", error |-> "SolverError", value |-> <<>>]
EmdFails ==
    /\ LoopHead
    /\ n2' # 0
    /\ EmdMayFail(M')
    /\ pc' = "done"
    /\ outcome' = OnSolverError(ws)
    /\ log' = Append(log, EmdCall(r, UniformWeights(n1'), UniformWeights(n2'), M'))
    /\ UNCHANGED <<args, n, train, rtry, Ytrain, Ytest, svdOut, s, Vh, ws, r,
                   W1, calls>>

\* line 123
Return ==
    /\ pc = "loop"
    /\ r > rtry
    /\ pc' = "done"
    /\ outcome' = [status |-> "returned", error |-> "", value |-> ws]
    /\ UNCHANGED <<args, n, train, rtry, Ytrain, Ytest, svdOut, s, Vh, ws, r,
                   loopLocals, dists, log, calls>>

\* The caller invokes the function again with the same arguments; the frame
\* of the finished invocation is gone.
Finished ==
    [status |-> outcome.status, error |-> outcome.error, value |-> outcome.value,
     svdArgs |-> <<Ytrain, rmax>>, svd |-> svdOut,
     failedOn |-> IF pc = "done" /\ dists > Len(ws) /\ n2 # 0 THEN M ELSE <<>>]
CallAgain ==
    /\ pc = "done"
    /\ Len(calls) + 1 < NumCalls
    /\ calls' = Append(calls, Finished)
    /\ pc' = "call"
    /\ n' = 0 /\ train' = 0 /\ rtry' = 0
    /\ Ytrain' = <<>> /\ Ytest' = <<>>
    /\ svdOut' = NoSvd
    /\ s' = <<>> /\ Vh' = <<>> /\ ws' = <<>> /\ r' = 0
    /\ P' = <<>> /\ Yproj' = <<>> /\ n1' = 0 /\ n2' = 0 /\ M' = <<>>
    /\ W1' = NoW1
    /\ dists' = 0
    /\ log' = <<>>
    /\ outcome' = NoOutcome
    /\ UNCHANGED args

Next ==
    \/ Split
    \/ SvdsInvalid
    \/ SvdsFails
    \/ Svds
    \/ LoopStep
    \/ LoopZeroDivision
    \/ EmdFails
    \/ Return

\* One invocation on any arguments.
Spec == Init /\ [][Next]_vars

\* ------------------------------------------------ lines 64-73: pc_scores
Dot(u, v, cols) == SumTo([c \in 1..cols |-> u[c] * v[c]], cols)
\* Y = X @ Vh.T
ScoreMatrix(XX, VV, cols) ==
    [i \in 1..Len(XX) |-> [j \in 1..Len(VV) |-> Dot(XX[i], VV[j], cols)]]
\* lines 70-73
ScoresResult(YY, ss, eig) == IF eig # "None" THEN <<YY, ss>> ELSE YY

\* line 65 with a rank svds rejects
ScoresSvdsInvalid ==
    /\ pc = "pc_scores"
    /\ ~SvdsRankOk(X, p, r_scores)
    /\ Raise("ValueError")
    /\ log' = Append(log, SvdsCall(X, r_scores))
    /\ UNCHANGED <<args, n, train, rtry, Ytrain, Ytest, svdOut, s, Vh, ws, r,
                   loopLocals, dists, calls>>

\* line 65: the solver does not converge
ScoresSvdsFails ==
    /\ pc = "pc_scores"
    /\ SvdsRankOk(X, p, r_scores)
    /\ Raise("ArpackNoConvergence")
    /\ log' = Append(log, SvdsCall(X, r_scores))
    /\ UNCHANGED <<args, n, train, rtry, Ytrain, Ytest, svdOut, s, Vh, ws, r,
                   loopLocals, dists, calls>>

\* lines 65-68: the decomposition and the re-sort
ScoresSvds ==
    /\ pc = "pc_scores"
    /\ SvdsRankOk(X, p, r_scores)
    /\ \E out \in svds(X, p, r_scores) :
          /\ svdOut' = out
          /\ \E q \in argsort(out.s) :
                LET idx == Reversed(q)
                IN  /\ s' = Take(out.s, idx)
                    /\ Vh' = TakeRows(out.Vh, idx)
    /\ log' = Append(log, SvdsCall(X, r_scores))
    /\ pc' = "pc_scores_return"
    /\ UNCHANGED <<args, n, train, rtry, Ytrain, Ytest, ws, r, loopLocals,
                   dists, outcome, calls>>

\* lines 69-73: the scores, with the singular values if asked for
ScoresReturn ==
    /\ pc = "pc_scores_return"
    /\ pc' = "done"
    /\ outcome' = [status |-> "returned", error |-> "",
                   value |-> ScoresResult(ScoreMatrix(X, Vh, p), s, return_eig)]
    /\ UNCHANGED <<args, n, train, rtry, Ytrain, Ytest, svdOut, s, Vh, ws, r,
                   loopLocals, dists, log, calls>>

\* One call of pc_scores on any arguments.
ScoresRanks == 0..(MaxRmax + 1)
InitScores ==
    /\ p \in 1..Len(Axis)
    /\ \E nn \in 1..MaxN : X \in [1..nn -> RowSet(p)]
    /\ r_scores \in ScoresRanks
    /\ return_eig \in {"None", "True"}
    /\ Y = <<>> /\ split = DefaultSplit /\ rmax = 0
    /\ pc = "pc_scores"
    /\ FreshFrame
    /\ calls = <<>>
NextScores ==
    \/ ScoresSvdsInvalid
    \/ ScoresSvdsFails
    \/ ScoresSvds
    \/ ScoresReturn
SpecScores == InitScores /\ [][NextScores]_vars

\* Repeated invocations on the same arguments, which are in the documented
\* domain (n >= 2, 0 < split < 1, rmax >= 1).
DocumentedArgs ==
    /\ Len(Y) >= 2
    /\ 0 < split.num /\ split.num < split.den
    /\ rmax >= 1
InitAgain == Init /\ DocumentedArgs
NextAgain == Next \/ CallAgain
SpecAgain == InitAgain /\ [][NextAgain]_vars

\* ----------------------------------------------------------- model sanity
\* Every distance in the cost matrix is the exact Euclidean distance.
EuclideanExact ==
    pc \in {"loop", "done"} /\ dists > 0 =>
        \A i \in 1..Len(M) : \A j \in 1..Len(M[i]) :
            M[i][j] >= 0 /\ M[i][j] * M[i][j] = SqDist(Yproj[i], Ytest[j], p)

\* ------------------------------------------------------------- the claims
SplitInUnit == 0 < split.num /\ split.num < split.den
Returned == pc = "done" /\ outcome.status = "returned"
Raised(err) == pc = "done" /\ outcome.status = "raised" /\ outcome.error = err
ProviderFailed ==
    pc = "done" /\ outcome.error \in {"ArpackNoConvergence", "SolverError"}
\* round(n * split), from the arguments
RoundedSplit == round(Len(Y) * split.num, split.den)

\* C1 as stated: for every Y with n >= 2 rows, 0 < split < 1 and rmax >= 1
\* the call returns a sequence of length min(round(n*split), rmax).
C1_AsStated ==
    (pc = "done" /\ ~ProviderFailed /\ Len(Y) >= 2 /\ SplitInUnit /\ rmax >= 1)
        => (Returned /\ Len(outcome.value) = Min2(RoundedSplit, rmax))

\* C1 amended: for every Y with n >= 2 rows, 0 < split < 1 and rmax >= 1 that
\* also has round(n*split) <= n - 1 and rmax <= min(round(n*split), p) - 1,
\* and whose providers do not fail, the call returns a sequence of length
\* min(round(n*split), rmax).
C1_LengthWhenAccepted ==
    (pc = "done" /\ ~ProviderFailed /\ Len(Y) >= 2 /\ SplitInUnit /\ rmax >= 1
        /\ RoundedSplit <= Len(Y) - 1 /\ rmax <= Min2(RoundedSplit, p) - 1)
        => (Returned /\ Len(outcome.value) = Min2(RoundedSplit, rmax))
C1_Witness ==
    /\ Returned /\ SplitInUnit /\ Len(Y) >= 2
    /\ rmax = 2 /\ RoundedSplit >= 3
    /\ Len(outcome.value) = 2

\* C2 as stated: whenever train = 1 or rmax = 1 (valid arguments, a split
\* with 1 <= train <= n - 1) the call returns a sequence of length 1 and
\* raises nothing.
C2_AsStated ==
    (pc = "done" /\ ~ProviderFailed /\ Len(Y) >= 2 /\ SplitInUnit /\ rmax >= 1
        /\ 1 <= train /\ train <= n - 1 /\ (train = 1 \/ rmax = 1))
        => (Returned /\ Len(outcome.value) = 1)

\* C2 amended: whenever rmax = 1, 2 <= train <= n - 1 and p >= 2 (and the
\* providers do not fail) the call returns a sequence of length 1 and raises
\* nothing; whenever train = 1 the call raises the SVD provider's ValueError
\* for every rmax and returns nothing.
C2_RankOneBoundary ==
    /\ (pc = "done" /\ ~ProviderFailed /\ SplitInUnit
            /\ rmax = 1 /\ 2 <= train /\ train <= n - 1 /\ p >= 2)
          => (Returned /\ Len(outcome.value) = 1)
    /\ (pc = "done" /\ train = 1) => Raised("ValueError")
C2_Witness ==
    /\ Returned /\ SplitInUnit /\ rmax = 1 /\ train >= 2
    /\ Len(outcome.value) = 1

\* C3 as stated: whenever train = round(n*split) is below 1 or at least n,
\* the call fails with an error and returns no sequence.  (Stated for a
\* Ytrain with more than rmax non-zero singular values, where the SVD
\* provider has a well-posed problem.)
RankOf(A, cols) == Cardinality({a \in 1..cols : Gram(A, cols)[a][a] > 0})
C3_DegenerateSplitRejected ==
    (pc = "done" /\ RankOf(Ytrain, p) > rmax /\ (train < 1 \/ train >= n))
        => outcome.status = "raised"

\* C4: whenever rmax < 1, or rmax > min(train, p) - 1 for the train x p
\* matrix Ytrain (train >= 0), the call fails with the ValueError of the SVD
\* provider, before any cost matrix is computed.
C4_RankCapRejected ==
    (pc = "done" /\ (rmax < 1 \/ (train >= 0 /\ rmax > Min2(train, p) - 1)))
        => (Raised("ValueError") /\ dists = 0 /\ ws = <<>>)
C4_Witness ==
    /\ Raised("ValueError") /\ dists = 0
    /\ rmax >= 1 /\ train >= 2 /\ p >= 2 /\ train < n
    /\ rmax = Min2(train, p)

\* C5: an invocation ends either with the whole list, one entry for every
\* candidate rank in 1..rtry, or with an error and no list at all.
C5_NoPartialResult ==
    pc = "done" =>
        \/ outcome.status = "returned"
             /\ Len(outcome.value) = Cardinality(1..rtry)
        \/ outcome.status = "raised" /\ outcome.value = <<>>
C5_Witness ==
    /\ Raised("SolverError")
    /\ rtry = 2 /\ Len(ws) = 1
    /\ outcome.value = <<>>

\* C6: every entry of a returned sequence is non-negative.
C6_NonNegative ==
    Returned =>
        \A i \in 1..Len(outcome.value) :
            outcome.value[i][1] >= 0 /\ outcome.value[i][2] > 0
C6_Witness ==
    /\ Returned
    /\ Len(outcome.value) = 2
    /\ outcome.value[1][1] > 0 /\ outcome.value[2][1] > 0
    /\ \E i \in 1..Len(Ytest) : \E c \in 1..p : Ytest[i][c] > 0

\* C7: two invocations with the same arguments, to which the SVD provider
\* gave the same answer, return the same sequence.
AllOutcomes == IF pc = "done" THEN Append(calls, Finished) ELSE calls
C7_Deterministic ==
    \A i, j \in 1..Len(AllOutcomes) :
        (/\ AllOutcomes[i].status = "returned"
         /\ AllOutcomes[j].status = "returned"
         /\ AllOutcomes[i].svd = AllOutcomes[j].svd)
            => AllOutcomes[i].value = AllOutcomes[j].value
C7_Witness ==
    /\ Returned /\ calls # <<>>
    /\ calls[1].status = "returned"
    /\ Len(calls[1].value) = 2
    /\ calls[1].value[1] # calls[1].value[2]
    /\ outcome.value = calls[1].value

\* C8: for 0 < split < 1, Ytrain is rows 1..train of Y and Ytest is rows
\* train+1..n of Y, in order: train and n - train rows, every row of Y in
\* exactly one part.
C8_PositionalPartition ==
    (pc # "call" /\ SplitInUnit) =>
        /\ Len(Ytrain) = train
        /\ Len(Ytest) = n - train
        /\ \A i \in 1..train : Ytrain[i] = Y[i]
        /\ \A j \in 1..(n - train) : Ytest[j] = Y[train + j]
        /\ Ytrain \o Ytest = Y
C8_Witness ==
    /\ pc # "call" /\ SplitInUnit
    /\ train >= 2 /\ n - train >= 2
    /\ Ytrain[1] # Ytrain[2] /\ Ytest[1] # Ytest[2] /\ Ytrain[1] # Ytest[1]

\* C9 as stated: with split = 0.5 the training part is the first ceil(n/2)
\* rows of Y and the test part is the rest, for every n >= 2.
CeilHalf(m) == (m + 1) \div 2
C9_CeilHalfSplit ==
    (pc # "call" /\ split = DefaultSplit /\ Len(Y) >= 2) =>
        /\ train = CeilHalf(n)
        /\ Ytrain = SubSeq(Y, 1, CeilHalf(n))
        /\ Ytest = SubSeq(Y, CeilHalf(n) + 1, n)

\* The score matrix in what pc_scores returned.
ScoresOf(v) == IF return_eig # "None" THEN v[1] ELSE v

\* C11: pc_scores(X, r) returns the n x r matrix whose column j is X times
\* the right singular vector the provider paired with the j-th largest of
\* the r singular values it computed; the singular values, when returned,
\* are those values in non-increasing order, matching the columns.
C11_ScoresByDescendingValue ==
    Returned =>
        LET Ys == ScoresOf(outcome.value)
            k == r_scores
        IN  /\ Len(Ys) = Len(X)
            /\ \A i \in 1..Len(X) : Len(Ys[i]) = k
            /\ \E pi \in Arrangements(1..k, k) :
                  /\ \A j \in 1..(k - 1) : svdOut.s[pi[j]] >= svdOut.s[pi[j + 1]]
                  /\ \A i \in 1..Len(X) : \A j \in 1..k :
                        Ys[i][j] = Dot(X[i], svdOut.Vh[pi[j]], p)
                  /\ return_eig # "None" =>
                        outcome.value[2] = [j \in 1..k |-> svdOut.s[pi[j]]]
C11_Witness ==
    /\ Returned /\ r_scores = 2 /\ return_eig = "True"
    /\ svdOut.s[1] < svdOut.s[2]
    /\ outcome.value[2][1] > outcome.value[2][2]
    /\ outcome.value[2][2] > 0
    /\ Len(outcome.value[1]) >= 3

\* C12: after the re-sort the singular values are non-increasing and the
\* rows of Vh went through the same permutation, so position i holds a
\* (value, vector) pair of the provider and the multiset of pairs is the
\* one the provider returned.
C12_SortKeepsPairs ==
    svdOut # NoSvd =>
        LET k == Len(svdOut.s)
        IN  /\ Len(s) = k /\ Len(Vh) = k
            /\ \A i \in 1..(k - 1) : s[i] >= s[i + 1]
            /\ \E pi \in Arrangements(1..k, k) :
                  \A i \in 1..k : /\ s[i] = svdOut.s[pi[i]]
                                  /\ Vh[i] = svdOut.Vh[pi[i]]
C12_Witness ==
    /\ svdOut # NoSvd /\ Len(svdOut.s) = 2
    /\ svdOut.s[1] < svdOut.s[2]
    /\ s[1] > s[2]
    /\ Vh[1] = svdOut.Vh[2] /\ Vh[2] = svdOut.Vh[1]
    /\ Len(Y) > 0

\* The candidate ranks, from the arguments: range(1, min(train, rmax) + 1)
CandidateRanks == 1..Min2(RoundedSplit, rmax)
TransportCalls == SelectSeq(log, LAMBDA e : e.fn = "emd2")

\* C13: the SVD provider is called once, with Ytrain and rmax, before any
\* transport call; the transport calls that follow are for the ranks
\* 1, 2, ... in order, one call per rank and no call repeated, and a returned
\* invocation made exactly one of them for every candidate rank in 1..rtry.
C13_OneSvdThenOneTransportPerRank ==
    /\ log # <<>> => log[1] = SvdsCall(TrainRows(Y, RoundedSplit), rmax)
    /\ \A i \in 2..Len(log) : log[i].fn = "emd2" /\ log[i].r = i - 1
    /\ Returned =>
          /\ Len(log) = 1 + Cardinality(CandidateRanks)
          /\ {log[i].r : i \in 2..Len(log)} = CandidateRanks
          /\ RoundedSplit >= 0 => Len(TransportCalls) = rtry
C13_Witness ==
    /\ Returned /\ rmax = 2 /\ rtry = 2 /\ train > rmax
    /\ Len(log) = 3
    /\ log[1].fn = "svds" /\ log[1].k = 2 /\ log[1].A = Ytrain
    /\ log[2].fn = "emd2" /\ log[3].fn = "emd2"

\* The distance of rank k, computed from the sorted vectors and the two halves.
DistanceAtRank(k) ==
    emd2(UniformWeights(Len(Ytrain)), UniformWeights(Len(Ytest)),
         dist(Project(Ytrain, Projection(Vh, k, p), p), Ytest, p))

\* C14: the ranks are processed in the order 1, 2, ..., each once; when the
\* iteration for rank r starts, ws has r - 1 entries, the last of them the
\* distance just computed for rank r - 1; entry i of the result (counted
\* from 0) is the distance of rank i + 1; and argmin(ws) + 1, taken on a
\* returned list, is one of the candidate ranks 1..rtry.
C14_RanksInOrder ==
    /\ \A i \in 1..Len(TransportCalls) : TransportCalls[i].r = i
    /\ pc = "loop" => Len(ws) = r - 1
    /\ (pc = "loop" /\ r <= rtry) => r \in CandidateRanks
    /\ (pc = "loop" /\ r > 1) =>
          /\ ws[r - 1] = W1
          /\ M = dist(Project(Ytrain, Projection(Vh, r - 1, p), p), Ytest, p)
          /\ TransportCalls[r - 1].M = M
    /\ Returned =>
          \A i \in 1..Len(outcome.value) : outcome.value[i] = DistanceAtRank(i)
    /\ (Returned /\ outcome.value # <<>>) =>
          /\ Len(outcome.value) = Cardinality(CandidateRanks)
          /\ argmin(outcome.value) + 1 \in CandidateRanks
          /\ argmin(outcome.value) + 1 \in 1..rtry
C14_Witness ==
    /\ Returned /\ Len(outcome.value) = 2
    /\ outcome.value[1] # outcome.value[2]
    /\ argmin(outcome.value) + 1 = 2
    /\ outcome.value[2] = DistanceAtRank(2)

\* Matrix product and transpose, for matrices held as sequences of rows.
MatMul(A, B, inner, cols) ==
    [i \in 1..Len(A) |-> [j \in 1..cols |->
        SumTo([k \in 1..inner |-> A[i][k] * B[k][j]], inner)]]
Transpose(A, cols) == [j \in 1..cols |-> [i \in 1..Len(A) |-> A[i][j]]]
Trace(A) == SumTo([i \in 1..Len(A) |-> A[i][i]], Len(A))

\* C15: the matrix P built in the loop is p x p, symmetric and idempotent,
\* so Ytrain @ P^T equals Ytrain @ P, and projecting the projected points
\* again leaves them unchanged.
C15_SymmetricIdempotent ==
    P # <<>> =>
        /\ Len(P) = p /\ \A a \in 1..p : Len(P[a]) = p
        /\ Transpose(P, p) = P
        /\ MatMul(P, P, p, p) = P
        /\ Yproj = MatMul(Ytrain, Transpose(P, p), p, p)
        /\ Yproj = MatMul(Ytrain, P, p, p)
        /\ Project(Yproj, P, p) = Yproj
C15_Witness ==
    /\ P # <<>> /\ p = 3 /\ Trace(P) = 2
    /\ Yproj # Ytrain
    /\ Len(ws) = 2

\* The sum of a weight vector whose entries share the denominator den is 1.
SumsToOne(w) ==
    \E den \in 1..MaxN :
        /\ \A i \in 1..Len(w) : w[i][2] = den
        /\ SumTo([i \in 1..Len(w) |-> w[i][1]], Len(w)) = den
IsMatrix(A, rows, cols) ==
    Len(A) = rows /\ \A i \in 1..rows : Len(A[i]) = cols

\* C16: every transport call has the same shape: the source weights are
\* train copies of 1/train, the target weights n - train copies of
\* 1/(n - train), each vector summing to 1, the cost matrix is
\* train x (n - train), Yproj is train x p and Ytest is (n - train) x p.
C16_TransportShape ==
    LET tr == RoundedSplit
        te == Len(Y) - RoundedSplit
    IN  /\ \A i \in 1..Len(TransportCalls) :
              LET e == TransportCalls[i]
              IN  /\ e.a = [j \in 1..tr |-> <<1, tr>>]
                  /\ e.b = [j \in 1..te |-> <<1, te>>]
                  /\ SumsToOne(e.a) /\ SumsToOne(e.b)
                  /\ IsMatrix(e.M, tr, te)
        /\ TransportCalls # <<>> =>
              /\ IsMatrix(Yproj, tr, p)
              /\ IsMatrix(Ytest, te, p)
              /\ n1 = tr /\ n2 = te
C16_Witness ==
    /\ Len(TransportCalls) = 2
    /\ Len(TransportCalls[1].a) = 3 /\ Len(TransportCalls[2].a) = 3
    /\ Len(TransportCalls[1].b) = 1 /\ Len(TransportCalls[2].b) = 1
    /\ TransportCalls[1].M # TransportCalls[2].M
    /\ p = 3

\* The incremental implementation: P(0) = 0 and P(k) = P(k-1) + v_k v_k^T
\* for the k-th sorted right singular vector v_k.
RECURSIVE IncrementalP(_, _, _)
IncrementalP(VV, k, cols) ==
    IF k = 0
    THEN [a \in 1..cols |-> [b \in 1..cols |-> 0]]
    ELSE LET prev == IncrementalP(VV, k - 1, cols)
         IN  [a \in 1..cols |-> [b \in 1..cols |->
                 prev[a][b] + VV[k][a] * VV[k][b]]]
\* The distance the incremental implementation computes for rank k.
IncrementalDistance(k) ==
    emd2(UniformWeights(Len(Ytrain)), UniformWeights(Len(Ytest)),
         dist(Project(Ytrain, IncrementalP(Vh, k, p), p), Ytest, p))

\* C17: the incremental update P(r+1) = P(r) + v_{r+1} v_{r+1}^T from
\* P(0) = 0 gives, at every rank, the projection the loop builds from
\* scratch, and so the same list ws.
C17_IncrementalEquivalent ==
    /\ (pc = "loop" /\ r > 1) =>
          /\ P = IncrementalP(Vh, r - 1, p)
          /\ M = dist(Project(Ytrain, IncrementalP(Vh, r - 1, p), p), Ytest, p)
    /\ Returned =>
          /\ \A k \in CandidateRanks : Projection(Vh, k, p) = IncrementalP(Vh, k, p)
          /\ outcome.value = [k \in CandidateRanks |-> IncrementalDistance(k)]
C17_Witness ==
    /\ Returned /\ rtry = 2 /\ p = 3
    /\ outcome.value = <<IncrementalDistance(1), IncrementalDistance(2)>>
    /\ IncrementalP(Vh, 1, p) # IncrementalP(Vh, 2, p)
    /\ IncrementalDistance(1) # IncrementalDistance(2)
    /\ P = IncrementalP(Vh, 2, p)

\* C18 as stated: every invocation that returns has rmax < train, hence
\* rtry = rmax and a result of exactly rmax entries; the defaults succeed
\* only when round(n/2) >= 51 and p >= 51.
C18_ReturnHasRmaxEntries ==
    Returned =>
        /\ rmax < RoundedSplit
        /\ rtry = rmax
        /\ Len(outcome.value) = rmax
        /\ (rmax = DefaultRmax /\ split = DefaultSplit) =>
              (RoundedSplit >= DefaultRmax + 1 /\ p >= DefaultRmax + 1)

\* The rows of Ytrain lie in the span of the first k sorted vectors.
TopSpansRows(k) == MatMul(Ytrain, IncrementalP(Vh, k, p), p, p) = Ytrain
\* The distance between the unprojected training half and the test half.
UnprojectedDistance ==
    emd2(UniformWeights(Len(Ytrain)), UniformWeights(Len(Ytest)),
         dist(Ytrain, Ytest, p))

\* C19: when Ytrain has rank k <= rtry and the first k sorted right singular
\* vectors span its row space, Yproj equals Ytrain at every rank from k on
\* and the entries of ws from position k - 1 (counted from 0) on all equal
\* the distance between the unprojected Ytrain and Ytest.
C19_ConstantFromRank ==
    LET k == RankOf(Ytrain, p)
    IN  (Vh # <<>> /\ k >= 1 /\ k <= rtry /\ TopSpansRows(k)) =>
            /\ (pc = "loop" /\ r - 1 >= k) =>
                  /\ Yproj = Ytrain
                  /\ M = dist(Ytrain, Ytest, p)
            /\ Returned => /\ Len(outcome.value) = rtry
                           /\ \A i \in k..rtry :
                                 outcome.value[i] = UnprojectedDistance
C19_Witness ==
    /\ Returned /\ RankOf(Ytrain, p) = 1 /\ rtry = 2 /\ TopSpansRows(1)
    /\ outcome.value = <<UnprojectedDistance, UnprojectedDistance>>
    /\ Yproj = Ytrain
    /\ UnprojectedDistance[1] > 0
====
